---- MODULE Spec2Model ----
(***************************************************************************)
(* Model of the technical-indicator engine of server/technical-analysis.ts *)
(* The calculators are pure functions of a candle sequence; they are       *)
(* modelled as operators over exact rationals extended with the special    *)
(* values of JavaScript numbers (NaN, +Infinity, -Infinity) and undefined. *)
(* Rounding of IEEE doubles is not modelled; Math.sqrt is truncated to     *)
(* SqrtScale digits.  The state machine draws a candle sequence and        *)
(* applies one calculator to it.                                           *)
(***************************************************************************)
EXTENDS Integers, Sequences, FiniteSets, TLC

\* ------------------------------------------------------------------ bounds
\* Flat bars: at most MaxLen bars, prices 0..MaxPrice.
MaxLen == 5
MaxPrice == 2
\* Range bars: at most MaxRangeLen bars, prices 0..MaxRangePrice.
MaxRangeLen == 4
MaxRangePrice == 2
\* Volume bars: at most MaxVolumeLen bars, prices 0..MaxPrice, volumes
\* 0..MaxVolume.
MaxVolumeLen == 3
MaxVolume == 2
\* Periods 1..MaxPeriod are tried.
MaxPeriod == 3
\* Math.sqrt keeps multiples of 1/SqrtScale.
SqrtScale == 1000
\* The volume of a synthetic candle.
SyntheticVolume == 1000
\* The default period of calculateRSI, calculateADX, calculateATR and
\* calculateStochastic.
DefaultPeriod == 14

\* ------------------------------------------------- JavaScript number values
\* A number is [k, n, d]: k = "fin" is the rational n/d (d > 0, lowest terms);
\* k = "nan", "inf", "ninf" are NaN, +Infinity, -Infinity; k = "undef" is the
\* value undefined (an out-of-range array read).
RECURSIVE GCD(_, _)
GCD(a, b) == IF b = 0 THEN a ELSE GCD(b, a % b)

AbsInt(x) == IF x < 0 THEN -x ELSE x

Rat(n, d) ==
  LET s == IF d < 0 THEN -1 ELSE 1
      g == GCD(AbsInt(n), AbsInt(d))
  IN  [k |-> "fin", n |-> (s * n) \div g, d |-> (s * d) \div g]

Num(i) == [k |-> "fin", n |-> i, d |-> 1]

NaN == [k |-> "nan", n |-> 0, d |-> 1]

PosInf == [k |-> "inf", n |-> 0, d |-> 1]

NegInf == [k |-> "ninf", n |-> 0, d |-> 1]

Undefined == [k |-> "undef", n |-> 0, d |-> 1]

IsFinite(a) == a.k = "fin"

\* undefined converts to NaN in arithmetic; NaN is absorbing.
NotANumber(a) == a.k \in {"nan", "undef"}

\* -1, 0, 1: the sign of a number that is not NaN.
Sign(a) ==
  IF a.k = "inf" THEN 1
  ELSE IF a.k = "ninf" THEN -1
  ELSE IF a.n > 0 THEN 1 ELSE IF a.n < 0 THEN -1 ELSE 0

Neg(a) ==
  IF NotANumber(a) THEN NaN
  ELSE IF a.k = "inf" THEN NegInf
  ELSE IF a.k = "ninf" THEN PosInf
  ELSE [k |-> "fin", n |-> -a.n, d |-> a.d]

Add(a, b) ==
  IF NotANumber(a) \/ NotANumber(b) THEN NaN
  ELSE IF IsFinite(a) /\ IsFinite(b) THEN Rat(a.n * b.d + b.n * a.d, a.d * b.d)
  ELSE IF IsFinite(a) THEN b
  ELSE IF IsFinite(b) THEN a
  ELSE IF a.k = b.k THEN a ELSE NaN

Sub(a, b) == Add(a, Neg(b))

Mul(a, b) ==
  IF NotANumber(a) \/ NotANumber(b) THEN NaN
  ELSE IF IsFinite(a) /\ IsFinite(b) THEN Rat(a.n * b.n, a.d * b.d)
  ELSE IF Sign(a) * Sign(b) = 0 THEN NaN
  ELSE IF Sign(a) * Sign(b) > 0 THEN PosInf ELSE NegInf

\* x / 0 is +-Infinity for x # 0 and NaN for x = 0 (the zero is taken as +0).
Div(a, b) ==
  IF NotANumber(a) \/ NotANumber(b) THEN NaN
  ELSE IF IsFinite(a) /\ IsFinite(b) THEN
         IF b.n = 0
         THEN IF a.n = 0 THEN NaN ELSE IF a.n > 0 THEN PosInf ELSE NegInf
         ELSE Rat(a.n * b.d, a.d * b.n)
  ELSE IF IsFinite(a) THEN Num(0)
  ELSE IF IsFinite(b) THEN
         IF (a.k = "inf") = (b.n >= 0) THEN PosInf ELSE NegInf
  ELSE NaN

\* a < b; every comparison with NaN or undefined is false.
Lt(a, b) ==
  IF NotANumber(a) \/ NotANumber(b) THEN FALSE
  ELSE IF IsFinite(a) /\ IsFinite(b) THEN a.n * b.d < b.n * a.d
  ELSE IF a.k = b.k THEN FALSE
  ELSE a.k = "ninf" \/ b.k = "inf"

Gt(a, b) == Lt(b, a)

\* a === b
StrictEq(a, b) == a.k # "nan" /\ b.k # "nan" /\ a = b

Le(a, b) == Lt(a, b) \/ (~NotANumber(a) /\ ~NotANumber(b) /\ a = b)

Ge(a, b) == Le(b, a)

MathAbs(a) ==
  IF NotANumber(a) THEN NaN
  ELSE IF a.k = "ninf" THEN PosInf
  ELSE IF IsFinite(a) /\ a.n < 0 THEN Neg(a) ELSE a

MathMax(a, b) ==
  IF NotANumber(a) \/ NotANumber(b) THEN NaN ELSE IF Lt(a, b) THEN b ELSE a

MathMin(a, b) ==
  IF NotANumber(a) \/ NotANumber(b) THEN NaN ELSE IF Lt(b, a) THEN b ELSE a

\* floor(sqrt(n)) by bisection on lo..hi (lo*lo <= n < (hi+1)*(hi+1)).
RECURSIVE ISqrtIn(_, _, _)
ISqrtIn(n, lo, hi) ==
  IF lo >= hi THEN lo
  ELSE LET mid == (lo + hi + 1) \div 2
       IN  IF mid * mid <= n THEN ISqrtIn(n, mid, hi) ELSE ISqrtIn(n, lo, mid - 1)

ISqrt(n) == ISqrtIn(n, 0, IF n < 46340 THEN n ELSE 46340)

\* Math.sqrt, truncated to a multiple of 1/SqrtScale.
MathSqrt(a) ==
  IF NotANumber(a) \/ a.k = "ninf" THEN NaN
  ELSE IF a.k = "inf" THEN PosInf
  ELSE IF a.n < 0 THEN NaN
  ELSE Rat(ISqrt((a.n * SqrtScale * SqrtScale) \div a.d), SqrtScale)

\* ------------------------------------------------------------ array helpers
\* array[i] (0-based); undefined outside the array.
At(s, i) == IF i >= 0 /\ i < Len(s) THEN s[i + 1] ELSE Undefined

\* array.slice(from, to): 0-based, half open, negative indices from the end.
Slice(s, from, to) ==
  LET n == Len(s)
      f == IF from < 0 THEN (IF n + from < 0 THEN 0 ELSE n + from)
           ELSE IF from > n THEN n ELSE from
      t == IF to < 0 THEN (IF n + to < 0 THEN 0 ELSE n + to)
           ELSE IF to > n THEN n ELSE to
  IN  IF f >= t THEN <<>> ELSE SubSeq(s, f + 1, t)

\* array.slice(-p): the last p elements (all of them if fewer; -0 is 0).
SliceLast(s, p) == IF p = 0 THEN s ELSE Slice(s, -p, Len(s))

\* array.reduce((a, b) => a + b): left to right, no initial value (a
\* TypeError on an empty array: reading s[1] of <<>> stops the check).
RECURSIVE SumOf(_)
SumOf(s) ==
  IF Len(s) <= 1 THEN s[1]
  ELSE Add(SumOf(SubSeq(s, 1, Len(s) - 1)), s[Len(s)])

\* Math.max(...xs) and Math.min(...xs) of a non-empty array.
RECURSIVE MaxOf(_)
MaxOf(s) ==
  IF Len(s) <= 1 THEN s[1]
  ELSE MathMax(MaxOf(SubSeq(s, 1, Len(s) - 1)), s[Len(s)])

RECURSIVE MinOf(_)
MinOf(s) ==
  IF Len(s) <= 1 THEN s[1]
  ELSE MathMin(MinOf(SubSeq(s, 1, Len(s) - 1)), s[Len(s)])

Closes(candles) == [i \in 1..Len(candles) |-> candles[i].close]

Highs(candles) == [i \in 1..Len(candles) |-> candles[i].high]

Lows(candles) == [i \in 1..Len(candles) |-> candles[i].low]

Volumes(candles) == [i \in 1..Len(candles) |-> candles[i].volume]

\* ------------------------------------------------------------ calculators
\* The loop of calculateRSI from index i: <<gains, losses>>.
RECURSIVE RSILoop(_, _, _, _)
RSILoop(prices, i, gains, losses) ==
  IF i >= Len(prices) THEN <<gains, losses>>
  ELSE LET change == Sub(At(prices, i), At(prices, i - 1))
       IN  IF Gt(change, Num(0))
           THEN RSILoop(prices, i + 1, Add(gains, change), losses)
           ELSE RSILoop(prices, i + 1, gains, Add(losses, MathAbs(change)))

\* Mutants of calculateRSI: the "1 +" of the RSI formula dropped; the
\* avgLoss === 0 guard dropped; the length guard off by one.
calculateRSI_NoOnePlus(candles, period) ==
  IF Len(candles) < period + 1 THEN Num(50)
  ELSE LET prices == Closes(candles)
           gl == RSILoop(prices, Len(prices) - period, Num(0), Num(0))
           avgGain == Div(gl[1], Num(period))
           avgLoss == Div(gl[2], Num(period))
       IN  IF StrictEq(avgLoss, Num(0)) THEN Num(100)
           ELSE LET rs == Div(avgGain, avgLoss)
                IN  Sub(Num(100), Div(Num(100), rs))

calculateRSI_NoGuard(candles, period) ==
  IF Len(candles) < period + 1 THEN Num(50)
  ELSE LET prices == Closes(candles)
           gl == RSILoop(prices, Len(prices) - period, Num(0), Num(0))
           avgGain == Div(gl[1], Num(period))
           avgLoss == Div(gl[2], Num(period))
           rs == Div(avgGain, avgLoss)
       IN  Sub(Num(100), Div(Num(100), Add(Num(1), rs)))

calculateRSI_ShortGuard(candles, period) ==
  IF Len(candles) < period THEN Num(50)
  ELSE LET prices == Closes(candles)
           gl == RSILoop(prices, Len(prices) - period, Num(0), Num(0))
           avgGain == Div(gl[1], Num(period))
           avgLoss == Div(gl[2], Num(period))
       IN  IF StrictEq(avgLoss, Num(0)) THEN Num(100)
           ELSE LET rs == Div(avgGain, avgLoss)
                IN  Sub(Num(100), Div(Num(100), Add(Num(1), rs)))

calculateRSI(candles, period) ==
  IF Len(candles) < period + 1 THEN Num(50)
  ELSE LET prices == Closes(candles)
           gl == RSILoop(prices, Len(prices) - period, Num(0), Num(0))
           avgGain == Div(gl[1], Num(period))
           avgLoss == Div(gl[2], Num(period))
       IN  IF StrictEq(avgLoss, Num(0)) THEN Num(100)
           ELSE LET rs == Div(avgGain, avgLoss)
                IN  Sub(Num(100), Div(Num(100), Add(Num(1), rs)))

\* A statement sequence: x is computed before e (and not again).
Seq2(x, e) == IF x = x THEN e ELSE e

\* The smoothing loop of calculateEMA from index i.
RECURSIVE EMALoop(_, _, _, _)
EMALoop(prices, i, multiplier, ema) ==
  IF i >= Len(prices) THEN ema
  ELSE LET next == Add(Mul(Sub(At(prices, i), ema), multiplier), ema)
       IN  Seq2(next, EMALoop(prices, i + 1, multiplier, next))

\* Mutant of calculateEMA: a short history gives its first price.
calculateEMA_ShortGivesFirst(prices, period) ==
  IF Len(prices) < period THEN At(prices, 0)
  ELSE LET multiplier == Div(Num(2), Num(period + 1))
           seed == Div(SumOf(SliceLast(prices, period)), Num(period))
       IN  EMALoop(prices, Len(prices) - period, multiplier, seed)

\* Mutant of calculateEMA: seeded with the mean of the first period prices.
calculateEMA_SeedFirstWindow(prices, period) ==
  IF Len(prices) < period THEN At(prices, Len(prices) - 1)
  ELSE LET multiplier == Div(Num(2), Num(period + 1))
           seed == Div(SumOf(Slice(prices, 0, period)), Num(period))
       IN  EMALoop(prices, Len(prices) - period, multiplier, seed)

calculateEMA(prices, period) ==
  IF Len(prices) < period THEN At(prices, Len(prices) - 1)
  ELSE LET multiplier == Div(Num(2), Num(period + 1))
           seed == Div(SumOf(SliceLast(prices, period)), Num(period))
       IN  EMALoop(prices, Len(prices) - period, multiplier, seed)

\* Mutant of calculateSMA: a short input is divided by the period.
calculateSMA_ShortByPeriod(prices, period) ==
  IF Len(prices) < period THEN Div(SumOf(prices), Num(period))
  ELSE Div(SumOf(SliceLast(prices, period)), Num(period))

calculateSMA(prices, period) ==
  IF Len(prices) < period THEN Div(SumOf(prices), Num(Len(prices)))
  ELSE Div(SumOf(SliceLast(prices, period)), Num(period))

\* Mutant of macdValues: the first entry is for the prefix of 27 prices.
macdValues_From27(prices) ==
  [j \in 1..(IF Len(prices) >= 27 THEN Len(prices) - 26 ELSE 0) |->
     LET slice == Slice(prices, 0, j + 26)
     IN  Sub(calculateEMA(slice, 12), calculateEMA(slice, 26))]

\* macdValues: one entry for every prefix length 26..prices.length.
macdValues(prices) ==
  [j \in 1..(IF Len(prices) >= 26 THEN Len(prices) - 25 ELSE 0) |->
     LET slice == Slice(prices, 0, j + 25)
     IN  Sub(calculateEMA(slice, 12), calculateEMA(slice, 26))]

calculateMACD(candles) ==
  LET prices == Closes(candles)
      macdValue == Sub(calculateEMA(prices, 12), calculateEMA(prices, 26))
      signal == calculateEMA(macdValues(prices), 9)
  IN  [value |-> macdValue, signal |-> signal,
       histogram |-> Sub(macdValue, signal)]

\* Mutant of calculateBollingerBands: the lower band one deviation away.
calculateBollingerBands_OneSigmaLower(candles, period) ==
  LET prices == Closes(candles)
      sma == calculateSMA(prices, period)
      slice == SliceLast(prices, period)
      squaredDiffs == [i \in 1..Len(slice) |->
                         Mul(Sub(slice[i], sma), Sub(slice[i], sma))]
      variance == Div(SumOf(squaredDiffs), Num(period))
      stdDev == MathSqrt(variance)
  IN  [upper |-> Add(sma, Mul(stdDev, Num(2))),
       middle |-> sma,
       lower |-> Sub(sma, stdDev)]

calculateBollingerBands(candles, period) ==
  LET prices == Closes(candles)
      sma == calculateSMA(prices, period)
      slice == SliceLast(prices, period)
      squaredDiffs == [i \in 1..Len(slice) |->
                         Mul(Sub(slice[i], sma), Sub(slice[i], sma))]
      variance == Div(SumOf(squaredDiffs), Num(period))
      stdDev == MathSqrt(variance)
  IN  [upper |-> Add(sma, Mul(stdDev, Num(2))),
       middle |-> sma,
       lower |-> Sub(sma, Mul(stdDev, Num(2)))]

calculateVolumeIndicator(candles) ==
  IF Len(candles) < 10 THEN Num(0)
  ELSE LET recentVolumes == Volumes(Slice(candles, -5, Len(candles)))
           olderVolumes == Volumes(Slice(candles, -10, -5))
           recentAvg == Div(SumOf(recentVolumes), Num(Len(recentVolumes)))
           olderAvg == Div(SumOf(olderVolumes), Num(Len(olderVolumes)))
       IN  Mul(Sub(Div(recentAvg, olderAvg), Num(1)), Num(100))

\* Mutant of StochLoop: the window of index i ends before candle i.
RECURSIVE StochLoop_PrevWindow(_, _, _, _)
StochLoop_PrevWindow(candles, kPeriod, i, kValues) ==
  IF i >= Len(candles) THEN kValues
  ELSE LET slice == Slice(candles, IF i - kPeriod > 0 THEN i - kPeriod ELSE 0, i)
       IN  IF Len(slice) >= kPeriod
           THEN LET close == candles[i + 1].close
                    high == MaxOf(Highs(slice))
                    low == MinOf(Lows(slice))
                IN  IF ~StrictEq(high, low)
                    THEN StochLoop_PrevWindow(candles, kPeriod, i + 1,
                           Append(kValues,
                             Mul(Div(Sub(close, low), Sub(high, low)), Num(100))))
                    ELSE StochLoop_PrevWindow(candles, kPeriod, i + 1, kValues)
           ELSE StochLoop_PrevWindow(candles, kPeriod, i + 1, kValues)

\* The kValues loop of calculateStochastic from index i.
RECURSIVE StochLoop(_, _, _, _)
StochLoop(candles, kPeriod, i, kValues) ==
  IF i >= Len(candles) THEN kValues
  ELSE LET slice == Slice(candles, IF i - kPeriod + 1 > 0 THEN i - kPeriod + 1 ELSE 0,
                          i + 1)
       IN  IF Len(slice) >= kPeriod
           THEN LET close == candles[i + 1].close
                    high == MaxOf(Highs(slice))
                    low == MinOf(Lows(slice))
                IN  IF ~StrictEq(high, low)
                    THEN StochLoop(candles, kPeriod, i + 1,
                           Append(kValues,
                             Mul(Div(Sub(close, low), Sub(high, low)), Num(100))))
                    ELSE StochLoop(candles, kPeriod, i + 1, kValues)
           ELSE StochLoop(candles, kPeriod, i + 1, kValues)

calculateStochastic(candles, kPeriod, dPeriod) ==
  IF Len(candles) < kPeriod THEN [k |-> Num(50), d |-> Num(50)]
  ELSE LET recentCandles == SliceLast(candles, kPeriod)
           currentClose == candles[Len(candles)].close
           highestHigh == MaxOf(Highs(recentCandles))
           lowestLow == MinOf(Lows(recentCandles))
           k == IF ~StrictEq(highestHigh, lowestLow)
                THEN Mul(Div(Sub(currentClose, lowestLow),
                             Sub(highestHigh, lowestLow)), Num(100))
                ELSE Num(50)
           start == IF Len(candles) - kPeriod - dPeriod > 0
                    THEN Len(candles) - kPeriod - dPeriod ELSE 0
           kValues == StochLoop(candles, kPeriod, start, <<>>)
           d == IF Len(kValues) >= dPeriod
                THEN Div(SumOf(SliceLast(kValues, dPeriod)), Num(dPeriod))
                ELSE k
       IN  [k |-> k, d |-> d]

\* Mutant of TrueRange: the bar's own range, gaps from the previous close
\* ignored.
TrueRange_NoGaps(candles, i) == Sub(candles[i + 1].high, candles[i + 1].low)

\* tr of step i (0-based, i >= 1), as computed in calculateADX and calculateATR.
TrueRange(candles, i) ==
  LET high == candles[i + 1].high
      low == candles[i + 1].low
      prevClose == candles[i].close
  IN  MathMax(MathMax(Sub(high, low), MathAbs(Sub(high, prevClose))),
              MathAbs(Sub(low, prevClose)))

trValues(candles) == [i \in 1..(Len(candles) - 1) |-> TrueRange(candles, i)]

plusDM(candles) ==
  [i \in 1..(Len(candles) - 1) |->
     LET highMove == Sub(candles[i + 1].high, candles[i].high)
         lowMove == Sub(candles[i].low, candles[i + 1].low)
     IN  IF Gt(highMove, lowMove) /\ Gt(highMove, Num(0)) THEN highMove ELSE Num(0)]

minusDM(candles) ==
  [i \in 1..(Len(candles) - 1) |->
     LET highMove == Sub(candles[i + 1].high, candles[i].high)
         lowMove == Sub(candles[i].low, candles[i + 1].low)
     IN  IF Gt(lowMove, highMove) /\ Gt(lowMove, Num(0)) THEN lowMove ELSE Num(0)]

\* Mutant of DirectionalIndex: no guard on atr.
DirectionalIndex_NoGuard(avgDM, atr) == Mul(Div(avgDM, atr), Num(100))

\* +DI or -DI of one window: 100 * avgDM / atr, 0 when atr is 0.
DirectionalIndex(avgDM, atr) ==
  IF ~StrictEq(atr, Num(0)) THEN Mul(Div(avgDM, atr), Num(100)) ELSE Num(0)

\* 100 * |+DI - -DI| / (+DI + -DI)
DXOf(pDI, mDI) == Mul(Div(MathAbs(Sub(pDI, mDI)), Add(pDI, mDI)), Num(100))

\* Mutant of DXLoop: the windows run to the end of trValues.
RECURSIVE DXLoop_ToEnd(_, _, _, _, _, _)
DXLoop_ToEnd(tr, pdm, mdm, period, i, dxValues) ==
  IF i >= Len(tr) THEN dxValues
  ELSE LET atrVal == Div(SumOf(Slice(tr, i - period, i)), Num(period))
           pDM == Div(SumOf(Slice(pdm, i - period, i)), Num(period))
           mDM == Div(SumOf(Slice(mdm, i - period, i)), Num(period))
           pDI == DirectionalIndex(pDM, atrVal)
           mDI == DirectionalIndex(mDM, atrVal)
       IN  IF ~StrictEq(Add(pDI, mDI), Num(0))
           THEN DXLoop_ToEnd(tr, pdm, mdm, period, i + 1,
                             Append(dxValues, DXOf(pDI, mDI)))
           ELSE DXLoop_ToEnd(tr, pdm, mdm, period, i + 1, dxValues)

\* The dxValues loop of calculateADX from index i.
RECURSIVE DXLoop(_, _, _, _, _, _)
DXLoop(tr, pdm, mdm, period, i, dxValues) ==
  IF i >= (IF Len(tr) < period * 2 THEN Len(tr) ELSE period * 2) THEN dxValues
  ELSE LET atrVal == Div(SumOf(Slice(tr, i - period, i)), Num(period))
           pDM == Div(SumOf(Slice(pdm, i - period, i)), Num(period))
           mDM == Div(SumOf(Slice(mdm, i - period, i)), Num(period))
           pDI == DirectionalIndex(pDM, atrVal)
           mDI == DirectionalIndex(mDM, atrVal)
       IN  IF ~StrictEq(Add(pDI, mDI), Num(0))
           THEN DXLoop(tr, pdm, mdm, period, i + 1, Append(dxValues, DXOf(pDI, mDI)))
           ELSE DXLoop(tr, pdm, mdm, period, i + 1, dxValues)

\* Mutant of calculateADX: no guard on plusDI + minusDI for the fallback dx.
calculateADX_NoDXGuard(candles, period) ==
  IF Len(candles) < period + 1
  THEN [value |-> Num(0), plusDI |-> Num(0), minusDI |-> Num(0)]
  ELSE LET tr == trValues(candles)
           pdm == plusDM(candles)
           mdm == minusDM(candles)
           atr == Div(SumOf(SliceLast(tr, period)), Num(period))
           avgPlusDM == Div(SumOf(SliceLast(pdm, period)), Num(period))
           avgMinusDM == Div(SumOf(SliceLast(mdm, period)), Num(period))
           plusDI == DirectionalIndex(avgPlusDM, atr)
           minusDI == DirectionalIndex(avgMinusDM, atr)
           dx == DXOf(plusDI, minusDI)
           dxValues == DXLoop(tr, pdm, mdm, period, period, <<>>)
           adx == IF Len(dxValues) > 0
                  THEN Div(SumOf(dxValues), Num(Len(dxValues)))
                  ELSE dx
       IN  [value |-> adx, plusDI |-> plusDI, minusDI |-> minusDI]

calculateADX(candles, period) ==
  IF Len(candles) < period + 1
  THEN [value |-> Num(0), plusDI |-> Num(0), minusDI |-> Num(0)]
  ELSE LET tr == trValues(candles)
           pdm == plusDM(candles)
           mdm == minusDM(candles)
           atr == Div(SumOf(SliceLast(tr, period)), Num(period))
           avgPlusDM == Div(SumOf(SliceLast(pdm, period)), Num(period))
           avgMinusDM == Div(SumOf(SliceLast(mdm, period)), Num(period))
           plusDI == DirectionalIndex(avgPlusDM, atr)
           minusDI == DirectionalIndex(avgMinusDM, atr)
           dx == IF ~StrictEq(Add(plusDI, minusDI), Num(0))
                 THEN DXOf(plusDI, minusDI) ELSE Num(0)
           dxValues == DXLoop(tr, pdm, mdm, period, period, <<>>)
           adx == IF Len(dxValues) > 0
                  THEN Div(SumOf(dxValues), Num(Len(dxValues)))
                  ELSE dx
       IN  [value |-> adx, plusDI |-> plusDI, minusDI |-> minusDI]

calculateATR(candles, period) ==
  IF Len(candles) < period + 1 THEN Num(0)
  ELSE Div(SumOf(SliceLast(trValues(candles), period)), Num(period))

\* Mutant of OBVLoop: an equal close counts as a down close.
RECURSIVE OBVLoop_EqualIsDown(_, _, _)
OBVLoop_EqualIsDown(candles, i, obv) ==
  IF i >= Len(candles) THEN obv
  ELSE IF Gt(candles[i + 1].close, candles[i].close)
       THEN OBVLoop_EqualIsDown(candles, i + 1, Add(obv, candles[i + 1].volume))
       ELSE OBVLoop_EqualIsDown(candles, i + 1, Sub(obv, candles[i + 1].volume))

\* Mutant of OBVLoop: a down close leaves obv unchanged.
RECURSIVE OBVLoop_NoDown(_, _, _)
OBVLoop_NoDown(candles, i, obv) ==
  IF i >= Len(candles) THEN obv
  ELSE IF Gt(candles[i + 1].close, candles[i].close)
       THEN OBVLoop_NoDown(candles, i + 1, Add(obv, candles[i + 1].volume))
       ELSE OBVLoop_NoDown(candles, i + 1, obv)

\* The loop of calculateOBV from index i.
RECURSIVE OBVLoop(_, _, _)
OBVLoop(candles, i, obv) ==
  IF i >= Len(candles) THEN obv
  ELSE IF Gt(candles[i + 1].close, candles[i].close)
       THEN OBVLoop(candles, i + 1, Add(obv, candles[i + 1].volume))
       ELSE IF Lt(candles[i + 1].close, candles[i].close)
            THEN OBVLoop(candles, i + 1, Sub(obv, candles[i + 1].volume))
            ELSE OBVLoop(candles, i + 1, obv)

\* Mutant of calculateOBV: obv starts at the volume of the first candle.
calculateOBV_CountsFirst(candles) ==
  IF Len(candles) < 2 THEN Num(0) ELSE OBVLoop(candles, 1, candles[1].volume)

calculateOBV(candles) ==
  IF Len(candles) < 2 THEN Num(0) ELSE OBVLoop(candles, 1, Num(0))

calculateMomentum(candles, period) ==
  IF Len(candles) < period + 1 THEN Num(0)
  ELSE LET currentPrice == candles[Len(candles)].close
           pastPrice == candles[Len(candles) - period].close
       IN  Mul(Div(Sub(currentPrice, pastPrice), pastPrice), Num(100))

\* Mutant of calculateROC: the change is taken relative to the current price.
calculateROC_OtherBase(candles, period) ==
  IF Len(candles) < period + 1 THEN Num(0)
  ELSE LET currentPrice == candles[Len(candles)].close
           pastPrice == candles[Len(candles) - period].close
       IN  Mul(Div(Sub(currentPrice, pastPrice), currentPrice), Num(100))

calculateROC(candles, period) ==
  IF Len(candles) < period + 1 THEN Num(0)
  ELSE LET currentPrice == candles[Len(candles)].close
           pastPrice == candles[Len(candles) - period].close
       IN  Mul(Div(Sub(currentPrice, pastPrice), pastPrice), Num(100))

\* Mutant of PivotLoop: a pivot is recorded with the close of its candle.
RECURSIVE PivotLoop_PushesClose(_, _, _)
PivotLoop_PushesClose(candles, i, pivotPoints) ==
  IF i >= Len(candles) - 5 THEN pivotPoints
  ELSE LET center == candles[i + 1]
           others == ((i - 5 + 1)..(i + 5 + 1)) \ {i + 1}
           isHigh == \A j \in others : Ge(center.high, candles[j].high)
           isLow == \A j \in others : Le(center.low, candles[j].low)
           withHigh == IF isHigh THEN Append(pivotPoints, center.close)
                       ELSE pivotPoints
           withLow == IF isLow THEN Append(withHigh, center.close) ELSE withHigh
       IN  PivotLoop_PushesClose(candles, i + 1, withLow)

\* Mutant of PivotLoop: a candle equal to a neighbour is no pivot.
RECURSIVE PivotLoop_StrictExtremes(_, _, _)
PivotLoop_StrictExtremes(candles, i, pivotPoints) ==
  IF i >= Len(candles) - 5 THEN pivotPoints
  ELSE LET center == candles[i + 1]
           others == ((i - 5 + 1)..(i + 5 + 1)) \ {i + 1}
           isHigh == \A j \in others : Gt(center.high, candles[j].high)
           isLow == \A j \in others : Lt(center.low, candles[j].low)
           withHigh == IF isHigh THEN Append(pivotPoints, center.high)
                       ELSE pivotPoints
           withLow == IF isLow THEN Append(withHigh, center.low) ELSE withHigh
       IN  PivotLoop_StrictExtremes(candles, i + 1, withLow)

\* The pivot loop of findSupportResistance from index i (window = 5).
RECURSIVE PivotLoop(_, _, _)
PivotLoop(candles, i, pivotPoints) ==
  IF i >= Len(candles) - 5 THEN pivotPoints
  ELSE LET center == candles[i + 1]
           others == ((i - 5 + 1)..(i + 5 + 1)) \ {i + 1}
           isHigh == \A j \in others : Ge(center.high, candles[j].high)
           isLow == \A j \in others : Le(center.low, candles[j].low)
           withHigh == IF isHigh THEN Append(pivotPoints, center.high)
                       ELSE pivotPoints
           withLow == IF isLow THEN Append(withHigh, center.low) ELSE withHigh
       IN  PivotLoop(candles, i + 1, withLow)

\* Mutant of findSupportResistance: a pivot at the current price counts as
\* a support and as a resistance.
findSupportResistance_LooseFilter(candles, currentPrice) ==
  IF Len(candles) < 20
  THEN [nearestSupport |-> Mul(currentPrice, Rat(98, 100)),
        nearestResistance |-> Mul(currentPrice, Rat(102, 100)),
        distanceToSupport |-> Num(2),
        distanceToResistance |-> Num(2)]
  ELSE LET pivotPoints == PivotLoop(candles, 5, <<>>)
           supports == SelectSeq(pivotPoints, LAMBDA p : Le(p, currentPrice))
           resistances == SelectSeq(pivotPoints, LAMBDA p : Ge(p, currentPrice))
           nearestSupport == IF Len(supports) > 0 THEN MaxOf(supports)
                             ELSE Mul(currentPrice, Rat(97, 100))
           nearestResistance == IF Len(resistances) > 0 THEN MinOf(resistances)
                                ELSE Mul(currentPrice, Rat(103, 100))
       IN  [nearestSupport |-> nearestSupport,
            nearestResistance |-> nearestResistance,
            distanceToSupport |->
              Mul(Div(Sub(currentPrice, nearestSupport), currentPrice), Num(100)),
            distanceToResistance |->
              Mul(Div(Sub(nearestResistance, currentPrice), currentPrice), Num(100))]

findSupportResistance(candles, currentPrice) ==
  IF Len(candles) < 20
  THEN [nearestSupport |-> Mul(currentPrice, Rat(98, 100)),
        nearestResistance |-> Mul(currentPrice, Rat(102, 100)),
        distanceToSupport |-> Num(2),
        distanceToResistance |-> Num(2)]
  ELSE LET pivotPoints == PivotLoop(candles, 5, <<>>)
           supports == SelectSeq(pivotPoints, LAMBDA p : Lt(p, currentPrice))
           resistances == SelectSeq(pivotPoints, LAMBDA p : Gt(p, currentPrice))
           nearestSupport == IF Len(supports) > 0 THEN MaxOf(supports)
                             ELSE Mul(currentPrice, Rat(97, 100))
           nearestResistance == IF Len(resistances) > 0 THEN MinOf(resistances)
                                ELSE Mul(currentPrice, Rat(103, 100))
       IN  [nearestSupport |-> nearestSupport,
            nearestResistance |-> nearestResistance,
            distanceToSupport |->
              Mul(Div(Sub(currentPrice, nearestSupport), currentPrice), Num(100)),
            distanceToResistance |->
              Mul(Div(Sub(nearestResistance, currentPrice), currentPrice), Num(100))]

\* Mutant of RunLoop: a step between equal closes counts as upward.
RECURSIVE RunLoop_EqualIsUp(_, _, _, _)
RunLoop_EqualIsUp(candles, i, lastDirection, consecutiveMoves) ==
  IF ~(i > Len(candles) - 11 /\ i > 0) THEN consecutiveMoves
  ELSE LET direction == IF Ge(candles[i + 1].close, candles[i].close) THEN 1 ELSE -1
       IN  IF lastDirection = 0 THEN RunLoop_EqualIsUp(candles, i - 1, direction, 1)
           ELSE IF direction = lastDirection
                THEN RunLoop_EqualIsUp(candles, i - 1, lastDirection,
                                       consecutiveMoves + 1)
                ELSE consecutiveMoves

\* The run-counting loop of calculateTrendStrength from index i (counting down).
RECURSIVE RunLoop(_, _, _, _)
RunLoop(candles, i, lastDirection, consecutiveMoves) ==
  IF ~(i > Len(candles) - 11 /\ i > 0) THEN consecutiveMoves
  ELSE LET direction == IF Gt(candles[i + 1].close, candles[i].close) THEN 1 ELSE -1
       IN  IF lastDirection = 0 THEN RunLoop(candles, i - 1, direction, 1)
           ELSE IF direction = lastDirection
                THEN RunLoop(candles, i - 1, lastDirection, consecutiveMoves + 1)
                ELSE consecutiveMoves

calculateTrendStrength(candles, adxValue) ==
  IF Len(candles) < 20 THEN Num(0)
  ELSE LET prices == Closes(candles)
           sma20 == calculateSMA(prices, 20)
           currentPrice == prices[Len(prices)]
           pricePositionScore == Mul(Div(Sub(currentPrice, sma20), sma20), Num(100))
           consecutiveMoves == RunLoop(candles, Len(candles) - 1, 0, 0)
           momentumScore == Num(consecutiveMoves * 10)
           trendStrength ==
             Div(Add(Add(adxValue, Mul(MathAbs(pricePositionScore), Num(10))),
                     momentumScore), Num(3))
       IN  MathMin(Num(100), trendStrength)

\* Mutant of determineMarketRegime: TRENDING from adx = 25 on.
determineMarketRegime_From25(adx, atr, currentPrice) ==
  LET volatilityRatio == Mul(Div(atr, currentPrice), Num(100))
  IN  IF Gt(adx, Num(40)) /\ Gt(volatilityRatio, Rat(1, 2)) THEN "STRONG_TRENDING"
      ELSE IF Ge(adx, Num(25)) THEN "TRENDING"
      ELSE "RANGING"

determineMarketRegime(adx, atr, currentPrice) ==
  LET volatilityRatio == Mul(Div(atr, currentPrice), Num(100))
  IN  IF Gt(adx, Num(40)) /\ Gt(volatilityRatio, Rat(1, 2)) THEN "STRONG_TRENDING"
      ELSE IF Gt(adx, Num(25)) THEN "TRENDING"
      ELSE "RANGING"

\* Mutant of analyzeMarket: the regime is classified from +DI instead of the
\* ADX value.
analyzeMarket_RegimeFromPlusDI(candles) ==
  LET prices == Closes(candles)
      currentPrice == At(prices, Len(prices) - 1)
      adx == calculateADX(candles, 14)
      atr == calculateATR(candles, 14)
      bollingerBands == calculateBollingerBands(candles, 20)
      bandwidth == Mul(Div(Sub(bollingerBands.upper, bollingerBands.lower),
                           bollingerBands.middle), Num(100))
      trendStrength == calculateTrendStrength(candles, adx.value)
      marketRegime == determineMarketRegime(adx.plusDI, atr, currentPrice)
  IN  [rsi |-> calculateRSI(candles, 14),
       macd |-> calculateMACD(candles),
       movingAverages |->
         [sma20 |-> calculateSMA(prices, 20),
          sma50 |-> calculateSMA(prices, 50),
          sma100 |-> calculateSMA(prices, 100),
          sma200 |-> calculateSMA(prices, 200),
          ema12 |-> calculateEMA(prices, 12),
          ema26 |-> calculateEMA(prices, 26),
          ema50 |-> calculateEMA(prices, 50)],
       bollingerBands |->
         [upper |-> bollingerBands.upper,
          middle |-> bollingerBands.middle,
          lower |-> bollingerBands.lower,
          bandwidth |-> bandwidth],
       volumeIndicator |-> calculateVolumeIndicator(candles),
       stochastic |-> calculateStochastic(candles, 14, 3),
       adx |-> adx,
       atr |-> atr,
       obv |-> calculateOBV(candles),
       momentum |-> calculateMomentum(candles, 10),
       roc |-> calculateROC(candles, 12),
       supportResistance |-> findSupportResistance(candles, currentPrice),
       trendStrength |-> trendStrength,
       marketRegime |-> marketRegime]

analyzeMarket(candles) ==
  LET prices == Closes(candles)
      currentPrice == At(prices, Len(prices) - 1)
      adx == calculateADX(candles, 14)
      atr == calculateATR(candles, 14)
      bollingerBands == calculateBollingerBands(candles, 20)
      bandwidth == Mul(Div(Sub(bollingerBands.upper, bollingerBands.lower),
                           bollingerBands.middle), Num(100))
      trendStrength == calculateTrendStrength(candles, adx.value)
      marketRegime == determineMarketRegime(adx.value, atr, currentPrice)
  IN  [rsi |-> calculateRSI(candles, 14),
       macd |-> calculateMACD(candles),
       movingAverages |->
         [sma20 |-> calculateSMA(prices, 20),
          sma50 |-> calculateSMA(prices, 50),
          sma100 |-> calculateSMA(prices, 100),
          sma200 |-> calculateSMA(prices, 200),
          ema12 |-> calculateEMA(prices, 12),
          ema26 |-> calculateEMA(prices, 26),
          ema50 |-> calculateEMA(prices, 50)],
       bollingerBands |->
         [upper |-> bollingerBands.upper,
          middle |-> bollingerBands.middle,
          lower |-> bollingerBands.lower,
          bandwidth |-> bandwidth],
       volumeIndicator |-> calculateVolumeIndicator(candles),
       stochastic |-> calculateStochastic(candles, 14, 3),
       adx |-> adx,
       atr |-> atr,
       obv |-> calculateOBV(candles),
       momentum |-> calculateMomentum(candles, 10),
       roc |-> calculateROC(candles, 12),
       supportResistance |-> findSupportResistance(candles, currentPrice),
       trendStrength |-> trendStrength,
       marketRegime |-> marketRegime]

\* ------------------------------------------------------------ state machine
VARIABLES candles, result

vars == <<candles, result>>

Candle(t, high, low, close, volume) ==
  [timestamp |-> t, open |-> Num(close), high |-> Num(high), low |-> Num(low),
   close |-> Num(close), volume |-> Num(volume)]

\* The bars a history point can become (prices may be 0: a point without
\* trades), the timestamp being the position of the bar.
\* Flat bars: open = high = low = close, the volume of a synthetic candle.
FlatBars(t) ==
  { Candle(t, c, c, c, SyntheticVolume) : c \in 0..MaxPrice }

\* Range bars: low <= close <= high, the volume of a synthetic candle.
RangeBars(t) ==
  { Candle(t, q[3], q[1], q[2], SyntheticVolume) :
      q \in { r \in (0..MaxRangePrice) \X (0..MaxRangePrice) \X (0..MaxRangePrice) :
                r[1] <= r[2] /\ r[2] <= r[3] } }

\* Volume bars: flat bars of any volume.
VolumeBars(t) ==
  { Candle(t, q[1], q[1], q[1], q[2]) : q \in (0..MaxPrice) \X (0..MaxVolume) }

\* The periods tried: the small ones, and for the calculators whose default
\* period is 14 that one too.
SmallPeriods == 1..MaxPeriod

Periods == SmallPeriods \cup { DefaultPeriod }

\* Sample arguments for the calculators that take a number.
PriceArgs == { Num(x) : x \in 0..MaxPrice }

AdxArgs == { Num(0), Num(30), Num(100) }

Idle == result.op = "none"

Init ==
  /\ candles \in { <<c>> : c \in FlatBars(1) }
  /\ result = [op |-> "none"]

InitRange ==
  /\ candles \in { <<c>> : c \in RangeBars(1) }
  /\ result = [op |-> "none"]

InitVolume ==
  /\ candles \in { <<c>> : c \in VolumeBars(1) }
  /\ result = [op |-> "none"]

\* The caller maps one more history point to a candle.
AppendFlatBar ==
  /\ Idle
  /\ Len(candles) < MaxLen
  /\ \E c \in FlatBars(Len(candles) + 1) : candles' = Append(candles, c)
  /\ UNCHANGED result

AppendRangeBar ==
  /\ Idle
  /\ Len(candles) < MaxRangeLen
  /\ \E c \in RangeBars(Len(candles) + 1) : candles' = Append(candles, c)
  /\ UNCHANGED result

AppendVolumeBar ==
  /\ Idle
  /\ Len(candles) < MaxVolumeLen
  /\ \E c \in VolumeBars(Len(candles) + 1) : candles' = Append(candles, c)
  /\ UNCHANGED result

RunRSI ==
  /\ Idle
  /\ \E period \in Periods :
       result' = [op |-> "calculateRSI", period |-> period,
                  out |-> calculateRSI(candles, period)]
  /\ UNCHANGED candles

\* calculateRSI with its default period on 15 flat bars with closes
\* 100, 101, ..., 114.
ScenarioA == [i \in 1..15 |-> Candle(i, 99 + i, 99 + i, 99 + i, SyntheticVolume)]

RunRSIScenarioA ==
  /\ Idle
  /\ candles' = ScenarioA
  /\ result' = [op |-> "calculateRSI", period |-> DefaultPeriod,
                out |-> calculateRSI(ScenarioA, DefaultPeriod)]

RunEMA ==
  /\ Idle
  /\ \E period \in SmallPeriods :
       result' = [op |-> "calculateEMA", period |-> period,
                  out |-> calculateEMA(Closes(candles), period)]
  /\ UNCHANGED candles

RunSMA ==
  /\ Idle
  /\ \E period \in SmallPeriods :
       result' = [op |-> "calculateSMA", period |-> period,
                  out |-> calculateSMA(Closes(candles), period)]
  /\ UNCHANGED candles

RunMACD ==
  /\ Idle
  /\ result' = [op |-> "calculateMACD", out |-> calculateMACD(candles)]
  /\ UNCHANGED candles

RunBollingerBands ==
  /\ Idle
  /\ \E period \in SmallPeriods :
       result' = [op |-> "calculateBollingerBands", period |-> period,
                  out |-> calculateBollingerBands(candles, period)]
  /\ UNCHANGED candles

RunVolumeIndicator ==
  /\ Idle
  /\ result' = [op |-> "calculateVolumeIndicator",
                out |-> calculateVolumeIndicator(candles)]
  /\ UNCHANGED candles

RunStochastic ==
  /\ Idle
  /\ \E kPeriod \in Periods, dPeriod \in SmallPeriods :
       result' = [op |-> "calculateStochastic", kPeriod |-> kPeriod,
                  dPeriod |-> dPeriod,
                  out |-> calculateStochastic(candles, kPeriod, dPeriod)]
  /\ UNCHANGED candles

RunADX ==
  /\ Idle
  /\ \E period \in Periods :
       result' = [op |-> "calculateADX", period |-> period,
                  out |-> calculateADX(candles, period)]
  /\ UNCHANGED candles

RunATR ==
  /\ Idle
  /\ \E period \in Periods :
       result' = [op |-> "calculateATR", period |-> period,
                  out |-> calculateATR(candles, period)]
  /\ UNCHANGED candles

RunOBV ==
  /\ Idle
  /\ result' = [op |-> "calculateOBV", out |-> calculateOBV(candles)]
  /\ UNCHANGED candles

RunMomentum ==
  /\ Idle
  /\ \E period \in SmallPeriods :
       result' = [op |-> "calculateMomentum", period |-> period,
                  out |-> calculateMomentum(candles, period)]
  /\ UNCHANGED candles

RunROC ==
  /\ Idle
  /\ \E period \in SmallPeriods :
       result' = [op |-> "calculateROC", period |-> period,
                  out |-> calculateROC(candles, period)]
  /\ UNCHANGED candles

\* The prices of a candle sequence: every high, low and close.
LevelsOf(cs) ==
  UNION { { cs[i].high, cs[i].low, cs[i].close } : i \in 1..Len(cs) }

\* Mutant of RunSupportResistance: the call leaves the candles in reverse
\* order.
RunSupportResistance_ReordersInput ==
  /\ Idle
  /\ \E currentPrice \in PriceArgs \cup LevelsOf(candles) :
       result' = [op |-> "findSupportResistance", currentPrice |-> currentPrice,
                  out |-> findSupportResistance(candles, currentPrice)]
  /\ candles' = [i \in 1..Len(candles) |-> candles[Len(candles) + 1 - i]]

RunSupportResistance ==
  /\ Idle
  /\ \E currentPrice \in PriceArgs \cup LevelsOf(candles) :
       result' = [op |-> "findSupportResistance", currentPrice |-> currentPrice,
                  out |-> findSupportResistance(candles, currentPrice)]
  /\ UNCHANGED candles

RunTrendStrength ==
  /\ Idle
  /\ \E adxValue \in AdxArgs :
       result' = [op |-> "calculateTrendStrength", adxValue |-> adxValue,
                  out |-> calculateTrendStrength(candles, adxValue)]
  /\ UNCHANGED candles

RunAnalyzeMarket ==
  /\ Idle
  /\ result' = [op |-> "analyzeMarket", out |-> analyzeMarket(candles)]
  /\ UNCHANGED candles

\* Every calculator, on flat bars.
Next ==
  \/ AppendFlatBar
  \/ RunRSI
  \/ RunRSIScenarioA
  \/ RunEMA
  \/ RunSMA
  \/ RunMACD
  \/ RunBollingerBands
  \/ RunVolumeIndicator
  \/ RunStochastic
  \/ RunADX
  \/ RunATR
  \/ RunOBV
  \/ RunMomentum
  \/ RunROC
  \/ RunSupportResistance
  \/ RunTrendStrength
  \/ RunAnalyzeMarket

Spec == Init /\ [][Next]_vars

\* The calculators that read highs and lows, on range bars.
NextRange ==
  \/ AppendRangeBar
  \/ RunStochastic
  \/ RunADX
  \/ RunATR
  \/ RunSupportResistance

SpecRange == InitRange /\ [][NextRange]_vars

\* The calculators that read volumes, on volume bars.
NextVolume ==
  \/ AppendVolumeBar
  \/ RunOBV
  \/ RunVolumeIndicator

SpecVolume == InitVolume /\ [][NextVolume]_vars

\* ------------------------------------------------------------ long histories
\* Histories of 20 candles and more, drawn from shapes: the close stays at
\* 100 while the highs rise above it and the lows fall below it.
Dist(i, p) == IF i < p THEN p - i ELSE i - p

\* How far the high of candle i (0-based) lies above the close (and its low
\* below): not at all, by 1 at candle p only, or falling from 6 at candle p
\* by 1 every 5 candles.
Excursion(kind, p, i) ==
  CASE kind = "flat" -> 0
    [] kind = "spike" -> IF i = p THEN 1 ELSE 0
    [] kind = "tent" -> 6 - ((Dist(i, p) + 4) \div 5)

ShapeKinds == { "flat", "spike", "tent" }

\* The candles (0-based) where a shape has its extreme: the first and last
\* centres of the pivot loop for 20 and 30 candles, their neighbours outside
\* the loop, and one in between.
ShapePlaces == { 4, 5, 9, 14, 24, 25 }

ShapedCandles(len, kh, ph, kl, pl) ==
  [i \in 1..len |->
     Candle(i, 100 + Excursion(kh, ph, i - 1), 100 - Excursion(kl, pl, i - 1),
            100, SyntheticVolume)]

ShapedInputs ==
  { ShapedCandles(q[1], q[2], q[3], q[4], q[5]) :
      q \in { r \in { 20, 30 } \X ShapeKinds \X ShapePlaces \X ShapeKinds \X ShapePlaces :
                r[3] < r[1] /\ r[5] < r[1] } }

\* Flat histories: every price 0 (points without trades) or 100.
FlatInputs ==
  { [i \in 1..q[1] |-> Candle(i, q[2], q[2], q[2], SyntheticVolume)] :
      q \in { 20, 25, 26, 30 } \X { 0, 100 } }

InitLong ==
  /\ candles \in ShapedInputs \cup FlatInputs
  /\ result = [op |-> "none"]

\* Sample arguments of determineMarketRegime, on both sides of its thresholds.
RegimeAdxArgs == { Num(25), Num(26), Num(40), Num(41) }

RegimeAtrArgs == { Num(0), Num(1) }

RegimePriceArgs == { Num(0), Num(100), Num(200), Num(201) }

RunMarketRegime ==
  /\ Idle
  /\ \E adx \in RegimeAdxArgs, atr \in RegimeAtrArgs, currentPrice \in RegimePriceArgs :
       result' = [op |-> "determineMarketRegime", adx |-> adx, atr |-> atr,
                  currentPrice |-> currentPrice,
                  out |-> determineMarketRegime(adx, atr, currentPrice)]
  /\ UNCHANGED candles

\* Every calculator, on a long history.
NextLong ==
  \/ RunRSI
  \/ RunEMA
  \/ RunSMA
  \/ RunMACD
  \/ RunBollingerBands
  \/ RunVolumeIndicator
  \/ RunStochastic
  \/ RunADX
  \/ RunATR
  \/ RunOBV
  \/ RunMomentum
  \/ RunROC
  \/ RunSupportResistance
  \/ RunTrendStrength
  \/ RunMarketRegime
  \/ RunAnalyzeMarket

SpecLong == InitLong /\ [][NextLong]_vars

\* ---------------------------------------------------------- swinging closes
\* Histories of flat bars whose closes and volumes follow a pattern.
\* The close of candle i (0-based): constant, alternating between 101 and 99
\* (starting high or low), rising by 1 or falling by 1 a candle.
CloseAt(kind, i) ==
  CASE kind = "flat" -> 100
    [] kind = "highLow" -> IF i % 2 = 0 THEN 101 ELSE 99
    [] kind = "lowHigh" -> IF i % 2 = 0 THEN 99 ELSE 101
    [] kind = "rising" -> 100 + i
    [] kind = "falling" -> 130 - i
    [] kind = "stairsUp" -> 100 + (i \div 2)
    [] kind = "stairsDown" -> 130 - (i \div 2)

CloseKinds ==
  { "flat", "highLow", "lowHigh", "rising", "falling", "stairsUp", "stairsDown" }

\* The volume of candle i (0-based) of len: a and b in turn, or a up to the
\* last 5 candles and b for these.
VolumeAt(kind, a, b, len, i) ==
  CASE kind = "parity" -> IF i % 2 = 0 THEN a ELSE b
    [] kind = "halves" -> IF i < len - 5 THEN a ELSE b

VolumeKinds == { "parity", "halves" }

SwingCandles(len, ck, vk, a, b) ==
  [i \in 1..len |->
     Candle(i, CloseAt(ck, i - 1), CloseAt(ck, i - 1), CloseAt(ck, i - 1),
            VolumeAt(vk, a, b, len, i - 1))]

SwingInputs ==
  { SwingCandles(q[1], q[2], q[3], q[4], q[5]) :
      q \in { 2, 3, 11, 20, 21 } \X CloseKinds \X VolumeKinds
              \X (0..MaxVolume) \X (0..MaxVolume) }

InitSwing ==
  /\ candles \in SwingInputs
  /\ result = [op |-> "none"]

\* The calculators that read closes and volumes, on a swinging history.
NextSwing ==
  \/ RunRSI
  \/ RunVolumeIndicator
  \/ RunStochastic
  \/ RunADX
  \/ RunATR
  \/ RunOBV
  \/ RunTrendStrength

SpecSwing == InitSwing /\ [][NextSwing]_vars

\* ------------------------------------------------------- the report
\* Histories for the aggregate report: every short flat-bar history, the
\* long flat and shaped ones, and flat histories of 33 and 34 candles (8 and
\* 9 entries in the MACD history).
ShortInputs ==
  { [i \in 1..Len(s) |-> Candle(i, s[i], s[i], s[i], SyntheticVolume)] :
      s \in UNION { [1..n -> 0..MaxPrice] : n \in 1..MaxLen } }

SignalEdgeInputs ==
  { [i \in 1..len |-> Candle(i, 100, 100, 100, SyntheticVolume)] :
      len \in { 33, 34 } }

InitReport ==
  /\ candles \in ShortInputs \cup FlatInputs \cup ShapedInputs \cup SignalEdgeInputs
  /\ result = [op |-> "none"]

NextReport ==
  \/ RunEMA
  \/ RunMACD
  \/ RunAnalyzeMarket

SpecReport == InitReport /\ [][NextReport]_vars

\* ------------------------------------------------------------------ claims
InRange0To100(x) == Ge(x, Num(0)) /\ Le(x, Num(100))

\* closes[i] <= closes[i+1] for the last n closes of the sequence.
LastClosesNonDecreasing(cs, n) ==
  \A i \in (Len(cs) - n + 1)..(Len(cs) - 1) : Le(cs[i].close, cs[i + 1].close)

\* C1: for every candle sequence and every period >= 1, calculateRSI returns a
\* value in the closed interval [0, 100].
C1_RSIInRange ==
  result.op = "calculateRSI" => InRange0To100(result.out)

\* C1 witness: an RSI strictly inside the interval, from gains and losses.
C1_Witness ==
  /\ result.op = "calculateRSI"
  /\ Len(candles) >= result.period + 1
  /\ Gt(result.out, Num(50))
  /\ Lt(result.out, Num(100))

\* C2: when the last period+1 closes of a sequence of at least period+1
\* candles are non-decreasing, calculateRSI returns exactly 100; the 15
\* closes 100..114 with period 14 (RunRSIScenarioA) give 100.
C2_RSINonDecreasingIs100 ==
     (result.op = "calculateRSI"
      /\ Len(candles) >= result.period + 1
      /\ LastClosesNonDecreasing(candles, result.period + 1))
     => result.out = Num(100)

\* C2 witness: an RSI of 100 over closes that rise and then stay.
C2_Witness ==
  /\ result.op = "calculateRSI"
  /\ result.period = 2
  /\ Len(candles) >= 3
  /\ Lt(candles[Len(candles) - 2].close, candles[Len(candles) - 1].close)
  /\ candles[Len(candles) - 1].close = candles[Len(candles)].close
  /\ result.out = Num(100)

\* C3: with fewer candles than it needs, each calculator returns its
\* documented default: RSI 50 (fewer than period+1), Stochastic {50, 50}
\* (fewer than kPeriod), ADX {0, 0, 0} and ATR 0 (fewer than period+1), OBV 0
\* (fewer than 2), Momentum and ROC 0 (fewer than period+1), the volume
\* indicator 0 (fewer than 10), the trend strength 0 (fewer than 20), and
\* support/resistance currentPrice*0.98 and currentPrice*1.02 at distances 2
\* (fewer than 20).
C3_DefaultsOnShortInput ==
  /\ (result.op = "calculateRSI" /\ Len(candles) < result.period + 1)
       => result.out = Num(50)
  /\ (result.op = "calculateStochastic" /\ Len(candles) < result.kPeriod)
       => result.out = [k |-> Num(50), d |-> Num(50)]
  /\ (result.op = "calculateADX" /\ Len(candles) < result.period + 1)
       => result.out = [value |-> Num(0), plusDI |-> Num(0), minusDI |-> Num(0)]
  /\ (result.op = "calculateATR" /\ Len(candles) < result.period + 1)
       => result.out = Num(0)
  /\ (result.op = "calculateOBV" /\ Len(candles) < 2)
       => result.out = Num(0)
  /\ (result.op \in {"calculateMomentum", "calculateROC"}
      /\ Len(candles) < result.period + 1)
       => result.out = Num(0)
  /\ (result.op = "calculateVolumeIndicator" /\ Len(candles) < 10)
       => result.out = Num(0)
  /\ (result.op = "calculateTrendStrength" /\ Len(candles) < 20)
       => result.out = Num(0)
  /\ (result.op = "findSupportResistance" /\ Len(candles) < 20)
       => result.out =
            [nearestSupport |-> Mul(result.currentPrice, Rat(98, 100)),
             nearestResistance |-> Mul(result.currentPrice, Rat(102, 100)),
             distanceToSupport |-> Num(2),
             distanceToResistance |-> Num(2)]

\* C3 witness: scenario B, an RSI(14) of 5 candles whose closes move.
C3_Witness ==
  /\ result.op = "calculateRSI"
  /\ result.period = DefaultPeriod
  /\ Len(candles) = 5
  /\ Gt(candles[5].close, candles[4].close)
  /\ Lt(candles[4].close, candles[3].close)
  /\ result.out = Num(50)

\* A defined number: neither undefined nor NaN.
Defined(x) == x.k \notin {"nan", "undef"}

\* The numeric fields of a report of analyzeMarket.
ReportNumbers(r) ==
  { r.rsi, r.macd.value, r.macd.signal, r.macd.histogram,
    r.movingAverages.sma20, r.movingAverages.sma50, r.movingAverages.sma100,
    r.movingAverages.sma200, r.movingAverages.ema12, r.movingAverages.ema26,
    r.movingAverages.ema50,
    r.bollingerBands.upper, r.bollingerBands.middle, r.bollingerBands.lower,
    r.bollingerBands.bandwidth,
    r.volumeIndicator, r.stochastic.k, r.stochastic.d,
    r.adx.value, r.adx.plusDI, r.adx.minusDI, r.atr, r.obv, r.momentum, r.roc,
    r.supportResistance.nearestSupport, r.supportResistance.nearestResistance,
    r.supportResistance.distanceToSupport,
    r.supportResistance.distanceToResistance,
    r.trendStrength }

\* C4: for every non-empty candle sequence of any length, analyzeMarket,
\* calculateMACD and calculateEMA return defined numbers in every numeric
\* field (never undefined or NaN because the history is short).
C4_DefinedOnShortHistory ==
  /\ result.op = "calculateEMA" => Defined(result.out)
  /\ result.op = "calculateMACD" =>
       /\ Defined(result.out.value)
       /\ Defined(result.out.signal)
       /\ Defined(result.out.histogram)
  /\ result.op = "analyzeMarket" =>
       \A x \in ReportNumbers(result.out) : Defined(x)

\* low <= open, close <= high in every candle.
WellFormed(cs) ==
  \A i \in 1..Len(cs) :
     /\ Le(cs[i].low, cs[i].open) /\ Le(cs[i].open, cs[i].high)
     /\ Le(cs[i].low, cs[i].close) /\ Le(cs[i].close, cs[i].high)

\* The highest high of the last n candles differs from their lowest low.
TrailingRangeNonDegenerate(cs, n) ==
  MaxOf(Highs(SliceLast(cs, n))) # MinOf(Lows(SliceLast(cs, n)))

\* C5: for at least kPeriod candles with low <= close <= high each, whose
\* trailing kPeriod window has a highest high different from its lowest low,
\* calculateStochastic returns k in [0, 100] and d in [0, 100].
C5_StochasticInRange ==
  (/\ result.op = "calculateStochastic"
   /\ Len(candles) >= result.kPeriod
   /\ WellFormed(candles)
   /\ TrailingRangeNonDegenerate(candles, result.kPeriod))
  => InRange0To100(result.out.k) /\ InRange0To100(result.out.d)

\* C5 witness: k strictly inside the interval and d a mean of several %K
\* values, different from k.
C5_Witness ==
  /\ result.op = "calculateStochastic"
  /\ result.dPeriod >= 2
  /\ Len(candles) >= result.kPeriod + result.dPeriod - 1
  /\ TrailingRangeNonDegenerate(candles, result.kPeriod)
  /\ Gt(result.out.k, Num(0)) /\ Lt(result.out.k, Num(100))
  /\ Gt(result.out.d, Num(0)) /\ Lt(result.out.d, Num(100))
  /\ result.out.d # result.out.k

\* C6: for every non-empty candle sequence and every period >= 1 (sequences
\* shorter than the period included), calculateBollingerBands returns
\* upper >= middle >= lower with upper - middle = middle - lower.
C6_BollingerOrdered ==
  result.op = "calculateBollingerBands" =>
    /\ Ge(result.out.upper, result.out.middle)
    /\ Ge(result.out.middle, result.out.lower)
    /\ Sub(result.out.upper, result.out.middle)
         = Sub(result.out.middle, result.out.lower)

\* C6 witness: bands of a sequence shorter than the period, strictly apart.
C6_Witness ==
  /\ result.op = "calculateBollingerBands"
  /\ Len(candles) < result.period
  /\ Gt(result.out.upper, result.out.middle)
  /\ Gt(result.out.middle, result.out.lower)

\* C7: for every non-empty candle sequence, the bollingerBands.bandwidth of
\* the report of analyzeMarket, (upper - lower) / middle * 100, is >= 0.
C7_BandwidthNonNegative ==
  result.op = "analyzeMarket" =>
    Ge(result.out.bollingerBands.bandwidth, Num(0))

\* C8: for candles with low <= open, close <= high and every period >= 1,
\* calculateADX returns value, plusDI and minusDI each in [0, 100].
C8_ADXInRange ==
  (result.op = "calculateADX" /\ WellFormed(candles)) =>
    /\ InRange0To100(result.out.value)
    /\ InRange0To100(result.out.plusDI)
    /\ InRange0To100(result.out.minusDI)

\* C8 witness: an ADX averaged over early windows, with both directional
\* indices positive and everything strictly inside the interval.
C8_Witness ==
  /\ result.op = "calculateADX"
  /\ Len(candles) >= result.period + 2
  /\ Gt(result.out.value, Num(0)) /\ Lt(result.out.value, Num(100))
  /\ Gt(result.out.plusDI, Num(0)) /\ Lt(result.out.plusDI, Num(100))
  /\ Gt(result.out.minusDI, Num(0)) /\ Lt(result.out.minusDI, Num(100))

\* C9: whenever calculateATR(candles, period) returns 0 (a trailing window
\* of zero true range, or too short a sequence), calculateADX(candles,
\* period) returns plusDI = 0 and minusDI = 0.
C9_ZeroATRZeroDI ==
  (result.op = "calculateADX"
   /\ calculateATR(candles, result.period) = Num(0))
  => result.out.plusDI = Num(0) /\ result.out.minusDI = Num(0)

\* C9 witness: enough candles, a trailing window of zero true range after
\* an earlier window that moved.
C9_Witness ==
  /\ result.op = "calculateADX"
  /\ Len(candles) >= result.period + 2
  /\ calculateATR(candles, result.period) = Num(0)
  /\ Gt(result.out.value, Num(0))
  /\ result.out.plusDI = Num(0)
  /\ result.out.minusDI = Num(0)

NonDecreasingCloses(cs) == LastClosesNonDecreasing(cs, Len(cs))

NonNegativeVolumes(cs) == \A i \in 1..Len(cs) : Ge(cs[i].volume, Num(0))

\* C10: while candles with non-decreasing closes and non-negative volumes
\* are appended, calculateOBV of the sequence never decreases and is >= 0.
C10_OBVMonotone ==
  [][(candles' # candles
      /\ NonDecreasingCloses(candles') /\ NonNegativeVolumes(candles'))
     => /\ Le(calculateOBV(candles), calculateOBV(candles'))
        /\ Ge(calculateOBV(candles), Num(0))
        /\ Ge(calculateOBV(candles'), Num(0))]_vars

\* C10 witness: the OBV of three candles, a rise and then an equal close,
\* both with volume.
C10_Witness ==
  /\ result.op = "calculateOBV"
  /\ Len(candles) = 3
  /\ Lt(candles[1].close, candles[2].close)
  /\ candles[2].close = candles[3].close
  /\ Gt(candles[2].volume, Num(0)) /\ Gt(candles[3].volume, Num(0))
  /\ result.out = candles[2].volume

\* The price-mirrored sequence: each close c becomes K - c, the rest is kept.
Mirrored(cs, K) == [i \in 1..Len(cs) |-> [cs[i] EXCEPT !.close = Sub(K, @)]]

\* The mirror levels tried.
MirrorLevels == { Num(x) : x \in 0..(MaxPrice + 1) }

\* C11: calculateOBV of the price-mirrored sequence (each close c replaced by
\* K - c, volumes unchanged) is the negative of calculateOBV of the sequence.
C11_OBVMirror ==
  result.op = "calculateOBV" =>
    \A K \in MirrorLevels :
      StrictEq(calculateOBV(Mirrored(candles, K)), Neg(result.out))

\* calculateOBV has run on a sequence with an up close and a down close and
\* returned a non-zero volume.
C11_Witness ==
  /\ result.op = "calculateOBV"
  /\ \E i \in 1..(Len(candles) - 1) : Gt(candles[i + 1].close, candles[i].close)
  /\ \E i \in 1..(Len(candles) - 1) : Lt(candles[i + 1].close, candles[i].close)
  /\ ~StrictEq(result.out, Num(0))

\* The centres of the pivot loop (1-based) and the candles around a centre.
Centres(cs) == 6..(Len(cs) - 5)

Around(i) == ((i - 5)..(i + 5)) \ { i }

\* Candle i is a local maximum of the highs (a local minimum of the lows):
\* no candle among the 5 before and the 5 after is higher (lower).
IsLocalHigh(cs, i) == \A j \in Around(i) : Ge(cs[i].high, cs[j].high)

IsLocalLow(cs, i) == \A j \in Around(i) : Le(cs[i].low, cs[j].low)

\* The detected pivot values.
PivotValues(cs) ==
  { cs[i].high : i \in { c \in Centres(cs) : IsLocalHigh(cs, c) } }
    \cup { cs[i].low : i \in { c \in Centres(cs) : IsLocalLow(cs, c) } }

\* C12: with at least 20 candles, a detected pivot value strictly below
\* currentPrice and one strictly above it, findSupportResistance returns
\* nearestSupport < currentPrice < nearestResistance.
C12_SupportBelowResistanceAbove ==
  (/\ result.op = "findSupportResistance"
   /\ Len(candles) >= 20
   /\ \E p \in PivotValues(candles) : Lt(p, result.currentPrice)
   /\ \E p \in PivotValues(candles) : Gt(p, result.currentPrice))
  => /\ Lt(result.out.nearestSupport, result.currentPrice)
     /\ Lt(result.currentPrice, result.out.nearestResistance)

\* findSupportResistance has run on a long history with a pivot below the
\* current price, one at it and one above it.
C12_Witness ==
  /\ result.op = "findSupportResistance"
  /\ Len(candles) >= 20
  /\ \E p \in PivotValues(candles) : Lt(p, result.currentPrice)
  /\ \E p \in PivotValues(candles) : StrictEq(p, result.currentPrice)
  /\ \E p \in PivotValues(candles) : Gt(p, result.currentPrice)
  /\ Lt(result.out.nearestSupport, result.currentPrice)

\* The output r.out is what the calculator r.op returns on the candles cs
\* with the arguments of r.
SameOutputOn(r, cs) ==
  CASE r.op = "calculateRSI" -> r.out = calculateRSI(cs, r.period)
    [] r.op = "calculateEMA" -> r.out = calculateEMA(Closes(cs), r.period)
    [] r.op = "calculateSMA" -> r.out = calculateSMA(Closes(cs), r.period)
    [] r.op = "calculateMACD" -> r.out = calculateMACD(cs)
    [] r.op = "calculateBollingerBands" ->
         r.out = calculateBollingerBands(cs, r.period)
    [] r.op = "calculateVolumeIndicator" -> r.out = calculateVolumeIndicator(cs)
    [] r.op = "calculateStochastic" ->
         r.out = calculateStochastic(cs, r.kPeriod, r.dPeriod)
    [] r.op = "calculateADX" -> r.out = calculateADX(cs, r.period)
    [] r.op = "calculateATR" -> r.out = calculateATR(cs, r.period)
    [] r.op = "calculateOBV" -> r.out = calculateOBV(cs)
    [] r.op = "calculateMomentum" -> r.out = calculateMomentum(cs, r.period)
    [] r.op = "calculateROC" -> r.out = calculateROC(cs, r.period)
    [] r.op = "findSupportResistance" ->
         r.out = findSupportResistance(cs, r.currentPrice)
    [] r.op = "calculateTrendStrength" ->
         r.out = calculateTrendStrength(cs, r.adxValue)
    [] r.op = "determineMarketRegime" ->
         r.out = determineMarketRegime(r.adx, r.atr, r.currentPrice)
    [] r.op = "analyzeMarket" -> r.out = analyzeMarket(cs)

AllFlat100(cs) ==
  \A i \in 1..Len(cs) :
    /\ cs[i].open = Num(100) /\ cs[i].high = Num(100)
    /\ cs[i].low = Num(100) /\ cs[i].close = Num(100)
    /\ cs[i].volume = Num(1000)

\* C14: for 25 or more flat candles (every price 100, volume 1000)
\* analyzeMarket reports the Bollinger bands 100, 100, 100 with bandwidth 0,
\* atr = 0 and adx.value = plusDI = minusDI = 0.
C14_FlatScenario ==
  (result.op = "analyzeMarket" /\ Len(candles) >= 25 /\ AllFlat100(candles))
  => /\ result.out.bollingerBands =
          [upper |-> Num(100), middle |-> Num(100), lower |-> Num(100),
           bandwidth |-> Num(0)]
     /\ result.out.atr = Num(0)
     /\ result.out.adx = [value |-> Num(0), plusDI |-> Num(0), minusDI |-> Num(0)]

\* analyzeMarket has run on exactly 25 flat candles.
C14_Witness ==
  /\ result.op = "analyzeMarket"
  /\ Len(candles) = 25
  /\ AllFlat100(candles)
  /\ result.out.bollingerBands.bandwidth = Num(0)

\* The candles that are local maxima of the highs, local minima of the lows.
LocalHighs(cs) == { c \in Centres(cs) : IsLocalHigh(cs, c) }

LocalLows(cs) == { c \in Centres(cs) : IsLocalLow(cs, c) }

\* C15: for 30 candles with a single local maximum (high M) and a single
\* local minimum (low m) among the candles at least 5 from either end, a
\* local extreme being a candle no lower (no higher) than the 5 candles on
\* each side of it, and m < currentPrice < M, findSupportResistance returns
\* nearestSupport = m and nearestResistance = M.
C15_SinglePivots ==
  (/\ result.op = "findSupportResistance"
   /\ Len(candles) = 30
   /\ Cardinality(LocalHighs(candles)) = 1
   /\ Cardinality(LocalLows(candles)) = 1)
  => \A h \in LocalHighs(candles), l \in LocalLows(candles) :
       (Lt(candles[l].low, result.currentPrice)
          /\ Lt(result.currentPrice, candles[h].high))
       => /\ StrictEq(result.out.nearestSupport, candles[l].low)
          /\ StrictEq(result.out.nearestResistance, candles[h].high)

\* findSupportResistance has run on 30 candles with one local maximum and one
\* local minimum, at different candles, and a current price between them.
C15_Witness ==
  /\ result.op = "findSupportResistance"
  /\ Len(candles) = 30
  /\ Cardinality(LocalHighs(candles)) = 1
  /\ Cardinality(LocalLows(candles)) = 1
  /\ LocalHighs(candles) # LocalLows(candles)
  /\ \A h \in LocalHighs(candles), l \in LocalLows(candles) :
       /\ Lt(candles[l].low, result.currentPrice)
       /\ Lt(result.currentPrice, candles[h].high)
       /\ StrictEq(result.out.nearestSupport, candles[l].low)

\* The close rises or falls at every step, and never twice the same way.
StrictlyAlternates(cs) ==
  /\ Len(cs) >= 2
  /\ \A i \in 1..(Len(cs) - 1) : ~StrictEq(cs[i + 1].close, cs[i].close)
  /\ \A i \in 1..(Len(cs) - 2) :
       Gt(cs[i + 1].close, cs[i].close) # Gt(cs[i + 2].close, cs[i + 1].close)

\* The volumes of the candles 2..n, each with the sign of its step.
RECURSIVE SignedVolumeSum(_, _)
SignedVolumeSum(cs, n) ==
  IF n < 2 THEN Num(0)
  ELSE Add(SignedVolumeSum(cs, n - 1),
           IF Gt(cs[n].close, cs[n - 1].close) THEN cs[n].volume
           ELSE Neg(cs[n].volume))

C17_RegimeThresholds ==
  result.op = "determineMarketRegime" =>
    LET ratio == Mul(Div(result.atr, result.currentPrice), Num(100))
        strong == Gt(result.adx, Num(40)) /\ Gt(ratio, Rat(1, 2))
        trending == ~strong /\ Gt(result.adx, Num(25))
    IN  /\ result.out \in { "STRONG_TRENDING", "TRENDING", "RANGING" }
        /\ (result.out = "STRONG_TRENDING") <=> strong
        /\ (result.out = "TRENDING") <=> trending
        /\ (result.out = "RANGING") <=> (~strong /\ ~trending)
        /\ Le(result.adx, Num(25)) => result.out = "RANGING"

\* determineMarketRegime has returned RANGING for adx = 25 with a volatility
\* ratio above 0.5.
C17_Witness ==
  /\ result.op = "determineMarketRegime"
  /\ result.adx = Num(25)
  /\ Gt(Mul(Div(result.atr, result.currentPrice), Num(100)), Rat(1, 2))
  /\ result.out = "RANGING"

\* C18: for every candle sequence and every adxValue, calculateTrendStrength
\* returns a value in [0, 100].
C18_TrendStrengthInRange ==
  result.op = "calculateTrendStrength" => InRange0To100(result.out)

\* Every price of every candle is positive and every volume is not negative.
PositivePrices(cs) ==
  \A i \in 1..Len(cs) :
    /\ Gt(cs[i].open, Num(0)) /\ Gt(cs[i].high, Num(0))
    /\ Gt(cs[i].low, Num(0)) /\ Gt(cs[i].close, Num(0))

\* C19: for candles with positive prices and non-negative volumes the
\* calculators with a denominator that can be zero (calculateRSI,
\* calculateADX, calculateStochastic, calculateVolumeIndicator) return
\* defined finite numbers.
C19_GuardedDenominators ==
  (PositivePrices(candles) /\ NonNegativeVolumes(candles)) =>
    /\ result.op = "calculateRSI" => IsFinite(result.out)
    /\ result.op = "calculateADX" =>
         /\ IsFinite(result.out.value)
         /\ IsFinite(result.out.plusDI)
         /\ IsFinite(result.out.minusDI)
    /\ result.op = "calculateStochastic" =>
         IsFinite(result.out.k) /\ IsFinite(result.out.d)
    /\ result.op = "calculateVolumeIndicator" => IsFinite(result.out)

\* x to the power k.
RECURSIVE Power(_, _)
Power(x, k) == IF k = 0 THEN Num(1) ELSE Mul(Power(x, k - 1), x)

\* The smoothing written out: after the prices xs[1..j] the seed has the
\* weight (1 - a)^j and the price xs[i] the weight a * (1 - a)^(j - i).
RECURSIVE SmoothedPart(_, _, _)
SmoothedPart(xs, a, j) ==
  IF j = 0 THEN Num(0)
  ELSE Add(SmoothedPart(xs, a, j - 1),
           Mul(Mul(a, Power(Sub(Num(1), a), Len(xs) - j)), xs[j]))

Smoothed(xs, seed) ==
  LET a == Div(Num(2), Num(Len(xs) + 1))
  IN  Add(Mul(seed, Power(Sub(Num(1), a), Len(xs))), SmoothedPart(xs, a, Len(xs)))

\* C20: with at least period prices calculateEMA is the smoothing
\* ema = (p - ema) * 2 / (period + 1) + ema over the trailing period prices in
\* order, seeded with their mean, so it depends on these prices only; with
\* fewer prices it returns the last price.
C20_EMATrailingWindow ==
  result.op = "calculateEMA" =>
    LET prices == Closes(candles)
        period == result.period
        trailing == SubSeq(prices, Len(prices) - period + 1, Len(prices))
    IN  IF Len(prices) < period
        THEN result.out = prices[Len(prices)]
        ELSE /\ StrictEq(result.out,
                         Smoothed(trailing, Div(SumOf(trailing), Num(period))))
             /\ result.out = calculateEMA(trailing, period)

\* calculateEMA has run with a period of 2 or more on more prices than that,
\* the first period prices having another mean than the last.
C20_Witness ==
  /\ result.op = "calculateEMA"
  /\ result.period >= 2
  /\ Len(candles) > result.period
  /\ SumOf(SubSeq(Closes(candles), 1, result.period))
       # SumOf(SubSeq(Closes(candles), Len(candles) - result.period + 1,
                      Len(candles)))
  /\ ~StrictEq(result.out, candles[Len(candles)].close)

\* The sum of xs[i..Len(xs)] and the arithmetic mean of the last k of xs.
RECURSIVE SumFrom(_, _)
SumFrom(xs, i) == IF i > Len(xs) THEN Num(0) ELSE Add(xs[i], SumFrom(xs, i + 1))

MeanOfLast(xs, k) == Div(SumFrom(xs, Len(xs) - k + 1), Num(k))

\* C21: calculateSMA returns the arithmetic mean of the last period prices
\* when there are that many, the mean of all prices when there are fewer, a
\* defined number in both cases.
C21_SMAMean ==
  result.op = "calculateSMA" =>
    LET prices == Closes(candles)
        k == IF Len(prices) < result.period THEN Len(prices) ELSE result.period
    IN  /\ StrictEq(result.out, MeanOfLast(prices, k))
        /\ IsFinite(result.out)

\* calculateSMA has run on fewer prices than the period, not all equal.
C21_Witness ==
  /\ result.op = "calculateSMA"
  /\ Len(candles) < result.period
  /\ \E i \in 1..Len(candles) : candles[i].close # candles[1].close
  /\ ~StrictEq(result.out, Num(0))

WindowDX(cs, period, i) ==
  LET atrVal == Div(SumOf(Slice(trValues(cs), i - period, i)), Num(period))
      pDI == DirectionalIndex(
               Div(SumOf(Slice(plusDM(cs), i - period, i)), Num(period)), atrVal)
      mDI == DirectionalIndex(
               Div(SumOf(Slice(minusDM(cs), i - period, i)), Num(period)), atrVal)
  IN  IF StrictEq(Add(pDI, mDI), Num(0)) THEN Num(0) ELSE DXOf(pDI, mDI)

\* C23: with more than period+1 candles the value of calculateADX is the
\* arithmetic mean of DX over every window trValues[i-period, i) for i in
\* [period, min(number of TR values, 2*period)), a window whose +DI + -DI is
\* 0 counting with DX = 0.
C23_ADXMeanOfEveryWindow ==
  (result.op = "calculateADX" /\ Len(candles) > result.period + 1) =>
    LET period == result.period
        n == Len(candles) - 1
        last == IF n < 2 * period THEN n ELSE 2 * period
        dxs == [j \in 1..(last - period) |-> WindowDX(candles, period, period + j - 1)]
    IN  StrictEq(result.out.value, Div(SumOf(dxs), Num(Len(dxs))))

\* The pivot values strictly below and strictly above a price.
PivotsBelow(cs, price) == { p \in PivotValues(cs) : Lt(p, price) }

PivotsAbove(cs, price) == { p \in PivotValues(cs) : Gt(p, price) }

\* C24: with at least 20 candles, the pivots being the candles i
\* (5 <= i <= n-6) whose high is >= (low is <=) every other one in candles
\* i-5..i+5, nearestSupport is the largest pivot value strictly below
\* currentPrice, or currentPrice*0.97 when there is none, and
\* nearestResistance is the smallest pivot value strictly above it, or
\* currentPrice*1.03 when there is none.
C24_NearestPivots ==
  (result.op = "findSupportResistance" /\ Len(candles) >= 20) =>
    LET below == PivotsBelow(candles, result.currentPrice)
        above == PivotsAbove(candles, result.currentPrice)
    IN  /\ IF below = {}
           THEN StrictEq(result.out.nearestSupport,
                         Mul(result.currentPrice, Rat(97, 100)))
           ELSE /\ result.out.nearestSupport \in below
                /\ \A p \in below : Le(p, result.out.nearestSupport)
        /\ IF above = {}
           THEN StrictEq(result.out.nearestResistance,
                         Mul(result.currentPrice, Rat(103, 100)))
           ELSE /\ result.out.nearestResistance \in above
                /\ \A p \in above : Ge(p, result.out.nearestResistance)

\* findSupportResistance has run on a long history with several pivot
\* values below the current price, one of them a tie, and none above it.
C24_Witness ==
  /\ result.op = "findSupportResistance"
  /\ Len(candles) >= 20
  /\ Cardinality(PivotsBelow(candles, result.currentPrice)) >= 2
  /\ PivotsAbove(candles, result.currentPrice) = {}
  /\ \E i \in Centres(candles) :
       /\ IsLocalLow(candles, i)
       /\ Lt(candles[i].low, result.currentPrice)
       /\ \E j \in Around(i) : StrictEq(candles[j].low, candles[i].low)

\* %K of the full window of kPeriod candles that ends at candle last
\* (1-based): 50 when the range of the window is zero.
WindowK(cs, kPeriod, last) ==
  LET window == SubSeq(cs, last - kPeriod + 1, last)
      high == MaxOf(Highs(window))
      low == MinOf(Lows(window))
  IN  IF StrictEq(high, low) THEN Num(50)
      ELSE Mul(Div(Sub(cs[last].close, low), Sub(high, low)), Num(100))

\* C25: d of calculateStochastic is the mean of the %K values of the dPeriod
\* most recent full kPeriod windows, a window of zero range counting with
\* %K = 50, and is k when there are fewer than kPeriod + dPeriod - 1 candles.
C25_StochasticD ==
  result.op = "calculateStochastic" =>
    LET n == Len(candles)
        kPeriod == result.kPeriod
        dPeriod == result.dPeriod
        ks == [j \in 1..dPeriod |-> WindowK(candles, kPeriod, n - dPeriod + j)]
    IN  IF n < kPeriod + dPeriod - 1
        THEN StrictEq(result.out.d, result.out.k)
        ELSE StrictEq(result.out.d, Div(SumOf(ks), Num(dPeriod)))

\* (lastClose - closeAt(n-1-p)) / closeAt(n-1-p) * 100, and 0 when there are
\* fewer than p+1 closes.
RateOfChange(closes, p) ==
  LET n == Len(closes)
  IN  IF n < p + 1 THEN Num(0)
      ELSE Mul(Div(Sub(At(closes, n - 1), At(closes, n - 1 - p)),
                   At(closes, n - 1 - p)), Num(100))

\* C26: calculateMomentum and calculateROC are the same function of
\* (candles, period): each returns what the other returns for the same
\* arguments, (lastClose - closeAt(n-1-p)) / closeAt(n-1-p) * 100, and 0 with
\* fewer than p+1 candles.
C26_MomentumIsROC ==
  result.op \in { "calculateMomentum", "calculateROC" } =>
    /\ result.out = calculateMomentum(candles, result.period)
    /\ result.out = calculateROC(candles, result.period)
    /\ result.out = RateOfChange(Closes(candles), result.period)

\* calculateROC has run on enough candles and returned a change that is
\* neither 0 nor undefined.
C26_Witness ==
  /\ result.op = "calculateROC"
  /\ Len(candles) >= result.period + 1
  /\ IsFinite(result.out)
  /\ ~StrictEq(result.out, Num(0))

\* C27: in a report of analyzeMarket, marketRegime is determineMarketRegime
\* of the report's adx.value, its atr and the last close, and trendStrength is
\* calculateTrendStrength of the candles and the report's adx.value; a report
\* with marketRegime STRONG_TRENDING has adx.value > 40 and atr > 0, and a
\* history of fewer than 15 candles is classified RANGING.
C27_CompositeFromReport ==
  result.op = "analyzeMarket" =>
    LET report == result.out
        lastClose == candles[Len(candles)].close
    IN  /\ report.marketRegime =
             determineMarketRegime(report.adx.value, report.atr, lastClose)
        /\ report.trendStrength =
             calculateTrendStrength(candles, report.adx.value)
        /\ report.marketRegime = "STRONG_TRENDING" =>
             Gt(report.adx.value, Num(40)) /\ Gt(report.atr, Num(0))
        /\ Len(candles) < 15 => report.marketRegime = "RANGING"

\* analyzeMarket has classified a history as STRONG_TRENDING whose +DI is
\* not above 25.
C27_Witness ==
  /\ result.op = "analyzeMarket"
  /\ result.out.marketRegime = "STRONG_TRENDING"
  /\ ~Gt(result.out.adx.plusDI, Num(25))

\* The window trValues[i-period, i) has +DI + -DI different from 0.
WindowHasDirection(cs, period, i) ==
  LET atrVal == Div(SumOf(Slice(trValues(cs), i - period, i)), Num(period))
      pDI == DirectionalIndex(
               Div(SumOf(Slice(plusDM(cs), i - period, i)), Num(period)), atrVal)
      mDI == DirectionalIndex(
               Div(SumOf(Slice(minusDM(cs), i - period, i)), Num(period)), atrVal)
  IN  ~StrictEq(Add(pDI, mDI), Num(0))

\* One of the early windows, i in [period, 2*period), has a direction.
EarlyWindowHasDirection(cs, period) ==
  \E i \in period..(2 * period - 1) : WindowHasDirection(cs, period, i)

\* Candles to put in the place of candle t.
OtherCandles(t) ==
  { Candle(t, 100, 100, 100, SyntheticVolume),
    Candle(t, 107, 93, 100, SyntheticVolume) }

\* The value of calculateADX on cs is the same on every shorter history of
\* at least shortest candles (cs is that history with candles appended) and
\* after a change of any candle at index >= 2*period.
ADXValueFromEarlyCandles(cs, period, shortest, value) ==
  /\ \A m \in shortest..Len(cs) :
       calculateADX(SubSeq(cs, 1, m), period).value = value
  /\ \A j \in (2 * period + 1)..Len(cs) : \A c \in OtherCandles(j) :
       calculateADX([cs EXCEPT ![j] = c], period).value = value

\* C28 as stated: with at least 2*period candles and an early window with
\* +DI + -DI different from 0, the value of calculateADX depends only on the
\* first 2*period candles: it is the same from 2*period candles on, whatever
\* is appended, and after a change of a candle at index >= 2*period.
C28_ValueFromFirst2Period ==
  (/\ result.op = "calculateADX"
   /\ Len(candles) >= 2 * result.period
   /\ EarlyWindowHasDirection(candles, result.period))
  => ADXValueFromEarlyCandles(candles, result.period, 2 * result.period,
                              result.out.value)

\* C28: with at least 2*period + 1 candles and an early window with
\* +DI + -DI different from 0, the value of calculateADX depends only on the
\* first 2*period candles: it is the same from 2*period + 1 candles on,
\* whatever is appended, and after a change of a candle at index >= 2*period.
C28_ValueFromFirst2PeriodPlus1 ==
  (/\ result.op = "calculateADX"
   /\ Len(candles) >= 2 * result.period + 1
   /\ EarlyWindowHasDirection(candles, result.period))
  => ADXValueFromEarlyCandles(candles, result.period, 2 * result.period + 1,
                              result.out.value)

\* calculateADX has run on more than 2*period + 1 candles with an early
\* window that has a direction, and +DI of the trailing window is not what it
\* was with fewer candles.
C28_Witness ==
  /\ result.op = "calculateADX"
  /\ Len(candles) > 2 * result.period + 1
  /\ EarlyWindowHasDirection(candles, result.period)
  /\ \E m \in (2 * result.period + 1)..Len(candles) :
       calculateADX(SubSeq(candles, 1, m), result.period).plusDI
         # result.out.plusDI

\* The direction of the step to candle i (1-based, i >= 2): up when the
\* close is above the previous close, down otherwise.
StepDirection(cs, i) == IF Gt(cs[i].close, cs[i - 1].close) THEN 1 ELSE -1

\* The number of steps, counted back from the last one and at most 10, that
\* have the direction of the last step.
TrailingRun(cs) ==
  LET n == Len(cs)
      runs == { k \in 1..10 :
                  /\ n - k >= 1
                  /\ \A j \in 0..(k - 1) :
                       StepDirection(cs, n - j) = StepDirection(cs, n) }
  IN  IF runs = {} THEN 0 ELSE CHOOSE k \in runs : \A m \in runs : m <= k

\* The closes are all equal and positive.
EqualPositiveCloses(cs) ==
  /\ \A i \in 1..Len(cs) : cs[i].close = cs[1].close
  /\ Gt(cs[1].close, Num(0))

\* C29: in calculateTrendStrength a step whose close equals the previous
\* close counts as a downward move; with at least 20 candles the run count
\* is between 1 and 10 and the result is
\* min(100, (adxValue + |price position| * 10 + run count * 10) / 3); with all
\* closes equal and positive the run count is 10 and the result is
\* min(100, (adxValue + 100) / 3).
C29_TrendRun ==
  (result.op = "calculateTrendStrength" /\ Len(candles) >= 20) =>
    LET prices == Closes(candles)
        sma20 == MeanOfLast(prices, 20)
        position == Mul(Div(Sub(prices[Len(prices)], sma20), sma20), Num(100))
        run == TrailingRun(candles)
    IN  /\ run \in 1..10
        /\ result.out =
             MathMin(Num(100),
                     Div(Add(Add(result.adxValue, Mul(MathAbs(position), Num(10))),
                             Num(run * 10)), Num(3)))
        /\ EqualPositiveCloses(candles) =>
             /\ run = 10
             /\ result.out =
                  MathMin(Num(100), Div(Add(result.adxValue, Num(100)), Num(3)))

\* calculateTrendStrength has run on a long history whose last step is
\* between equal closes and whose run of 10 holds a falling step.
C29_Witness ==
  /\ result.op = "calculateTrendStrength"
  /\ Len(candles) >= 20
  /\ candles[Len(candles)].close = candles[Len(candles) - 1].close
  /\ TrailingRun(candles) = 10
  /\ \E i \in (Len(candles) - 9)..Len(candles) :
       Lt(candles[i].close, candles[i - 1].close)
  /\ IsFinite(result.out)

====
